---- MODULE Spec2Model ----
(***************************************************************************)
(* Model of the ticket bot of src/main.py: three JSON-backed Storage       *)
(* objects (config, tickets, blacklist) with debounced, temp-file-then-    *)
(* replace saves, and the asyncio handlers that create and close tickets.  *)
(*                                                                         *)
(* One action is one run of a coroutine from the await it was suspended at *)
(* to its next await (asyncio runs that stretch without interleaving).     *)
(* A file write is synchronous for the event loop, but the process can be  *)
(* killed between its system calls: the variable writer holds the position *)
(* inside a write, and while it is set only the write or Crash can step.   *)
(***************************************************************************)
EXTENDS Integers, Sequences, FiniteSets, Bags, TLC

\* ------------------------------------------------------------- bounds
MaxTasks   == 2    \* handler coroutines in flight at once
MaxCreates == 2    \* button presses over a whole behaviour
MaxCloses  == 2    \* /close invocations over a whole behaviour
MaxCmds    == 2    \* other slash commands over a whole behaviour
MaxEnv     == 1    \* events from outside over a whole behaviour: kills of
                   \* the process, signals, channels deleted on the platform

\* ------------------------------------------------- the platform's facts
Guilds == {1, 2}
Users  == {41, 42}
\* guild_permissions.administrator
Admins == {41}
\* user.roles of a member of guild g (role ids are unique across guilds)
RolesOf(g, u) ==
    IF u = 42 THEN {50 + g} ELSE IF u = 43 THEN {60 + g} ELSE {}
\* a member who holds the staff role of every guild
StaffUsers == {43}
\* the objects an administrator hands to /setup_ticket in guild g
CatOf(g)       == 90 + g
StaffRoleOf(g) == 60 + g
LogChanOf(g)   == 70 + g
\* the id the platform gives a "logs-ticket" channel created in guild g
LogsTicketOf(g) == 80 + g
\* the general channel of guild g, where no ticket lives
LobbyOf(g) == 30 + g
\* ticket channels get fresh ids 1, 2, ... from the platform
TicketTypes == {"Support"}

Stores == {"config", "tickets", "blacklist"}
\* save order of the shutdown handler
SyncOrder == <<"config", "tickets", "blacklist">>

VARIABLES
    config,      \* config.data: guild id -> guild config
    tickets,     \* tickets.data: [last_id, tickets: channel id -> record]
    blacklist,   \* blacklist.data: [users, roles] (lists of ids)
    dirty,       \* Storage._dirty of each store
    save_task,   \* Storage._save_task of each store: "none", "pending", "done"
    save_count,  \* per store: _debounced_save coroutines created and not ended
    disk,        \* the target file of each store
    tmp,         \* the file path + ".tmp" of each store
    writer,      \* position inside a synchronous file write
    tasks,       \* the handler coroutines in flight
    last,        \* outcome of the handler the last step ended, if it ended one
    plat,        \* platform: existing categories and text channels
    plat_guild,  \* platform: guild of each ticket channel ever created
    plat_open,   \* platform: ticket channels that still exist
    \* ---- history (read by the properties only)
    epoch,       \* number of restarts so far
    n_creates,   \* button presses so far
    n_closes,    \* /close invocations so far
    n_platdel,   \* platform deletions so far
    n_signals,   \* SIGINT/SIGTERM deliveries so far
    n_cmds,      \* other slash commands issued so far
    start_id,    \* last_id as loaded when the running process started
    allocLog,    \* counter reads: <<epoch, guild, id>> in order
    inserted,    \* <<id, channel>> of every record ever inserted
    announced,   \* <<id, channel>> of every "Ticket #id created" follow-up
    closedChans, \* channels whose record a close has removed
    closeWins,   \* channel -> closes of the running process that removed it
    lastFlushed  \* per store: the document of the last completed replace

vars == <<config, tickets, blacklist, dirty, save_task, save_count, disk,
          tmp, writer,
          tasks, last, plat, plat_guild, plat_open, epoch, n_creates,
          n_closes, n_platdel, n_signals, n_cmds, start_id, allocLog, inserted,
          announced,
          closedChans, closeWins, lastFlushed>>

\* events from outside so far
EnvEvents == epoch + n_platdel + n_signals

mem   == <<config, tickets, blacklist>>
sched == <<dirty, save_task, save_count>>
files == <<disk, tmp, lastFlushed>>
platv == <<plat, plat_guild, plat_open, n_platdel>>
hist  == <<allocLog, inserted, announced, closedChans, closeWins>>

\* ------------------------------------------------------------ documents
\* Python None and a missing id are both falsy: 0.
None == 0

\* ensure_guild_config's default
DefaultGuildConfig ==
    [ticket_category |-> None, staff_role |-> None, log_channel |-> None,
     custom_buttons |-> <<>>, panel_message |-> <<>>]

\* the defaults handed to the three Storage constructors
DefaultDoc(s) ==
    CASE s = "config"    -> <<>>
      [] s = "tickets"   -> [last_id |-> 0, tickets |-> <<>>]
      [] s = "blacklist" -> [users |-> <<>>, roles |-> <<>>]

Data(s) ==
    CASE s = "config"    -> config
      [] s = "tickets"   -> tickets
      [] s = "blacklist" -> blacklist

\* A file: absent, the prefix of a dump cut short, or a whole dump.
NoFile       == [st |-> "none", doc |-> <<>>]
PartialFile  == [st |-> "partial", doc |-> <<>>]
\* json.dump(self.data, f): the whole document as text
Dump(d)      == [st |-> "full", doc |-> d]

\* Storage._load: no file -> default; json.load of a cut dump raises ->
\* default; a whole dump parses to the document it was made from (every
\* key of the documents is a str and every value an int, a str, None, a
\* list or a dict, which json.dump and json.load carry over unchanged; the
\* integers standing for keys here stand for those strings).
Load(file, default) ==
    IF file.st = "full" THEN file.doc ELSE default

\* dict helpers
Has(d, k)    == k \in DOMAIN d
Put(d, k, v) == [x \in DOMAIN d \cup {k} |-> IF x = k THEN v ELSE d[x]]
\* mutant: the entry is read and left in the dict
Pop_Keep(d, k) == d
\* the dict after d.pop(k)
Pop(d, k)    == [x \in DOMAIN d \ {k} |-> d[x]]
\* config.data.get(gid, {}).get(field): None when either is missing
ConfGet(g, field) == IF Has(config, g) THEN config[g][field] ELSE None

SeqToSet(s) == {s[i] : i \in 1..Len(s)}


\* ------------------------------------------------------ tasks, outcomes
IdleTask ==
    [kind |-> "idle", pc |-> "idle", gid |-> 0, user |-> 0, chan |-> 0,
     tid |-> 0, ttype |-> "", logfail |-> FALSE]

\* how a handler ended: its kind, its result, the channel it was about, and
\* whether its event-log path had raised
NoOutcome == [kind |-> "none", result |-> "none", chan |-> 0, logfail |-> FALSE]
Outcome(k, r, c, lf) == [kind |-> k, result |-> r, chan |-> c, logfail |-> lf]

\* tasks is the bag of the coroutines in flight (the loop does not tell two
\* coroutines at the same await with the same locals apart)
Running  == BagToSet(tasks)
CanSpawn == BagCardinality(tasks) < MaxTasks
One(r)   == SetToBag({r})

\* The event loop can run a callback: no file write is in progress.
LoopRuns == writer.phase = "idle"

NoWriter == [s |-> "none", phase |-> "idle", sync |-> FALSE, idx |-> 0,
             exit |-> FALSE]
\* the process has run the finally block of __main__ to its end and is gone
Exited   == [s |-> "none", phase |-> "exited", sync |-> FALSE, idx |-> 0,
             exit |-> TRUE]

\* task t ends with outcome o
Finish(t, o) ==
    /\ tasks' = tasks (-) One(t)
    /\ last' = o

\* task t moves on to its next await
Goto(t, rec) ==
    /\ tasks' = (tasks (-) One(t)) (+) One(rec)
    /\ last' = NoOutcome

\* a new coroutine starts and suspends at its first await
Spawn(rec) ==
    /\ tasks' = tasks (+) One(rec)
    /\ last' = NoOutcome

\* ----------------------------------------------------------- Storage
\* mutant: every call schedules a save task of its own
mark_dirty_Always(S) ==
    /\ dirty' = [s \in Stores |-> IF s \in S THEN TRUE ELSE dirty[s]]
    /\ save_task' = [s \in Stores |->
           IF s \in S THEN "pending" ELSE save_task[s]]
    /\ save_count' = [s \in Stores |->
           IF s \in S THEN save_count[s] + 1 ELSE save_count[s]]

\* Storage.mark_dirty on every store in S: set _dirty; keep a save task
\* that is still pending, schedule one otherwise.
mark_dirty(S) ==
    /\ dirty' = [s \in Stores |-> IF s \in S THEN TRUE ELSE dirty[s]]
    /\ save_task' = [s \in Stores |->
           IF s \in S
           THEN (IF save_task[s] = "pending" THEN save_task[s] ELSE "pending")
           ELSE save_task[s]]
    /\ save_count' = [s \in Stores |->
           IF s \in S /\ save_task[s] # "pending"
           THEN save_count[s] + 1 ELSE save_count[s]]

\* Storage._debounced_save: the sleep is over, save_now starts (the lock is
\* free: no other coroutine holds it across an await).
DebouncedSave(s) ==
    /\ LoopRuns
    /\ save_count[s] > 0
    /\ writer' = [s |-> s, phase |-> "start", sync |-> FALSE, idx |-> 0,
                  exit |-> FALSE]
    /\ last' = NoOutcome
    /\ UNCHANGED <<mem, sched, files, tasks, platv, hist,
                   epoch, n_creates, n_closes, start_id, n_signals, n_cmds>>

\* _sync_save_and_stop, the SIGINT/SIGTERM callback: save_now_sync on the
\* three stores in turn. It does not stop the loop.
SigSave ==
    /\ LoopRuns
    /\ EnvEvents < MaxEnv
    /\ n_signals' = n_signals + 1
    /\ writer' = [s |-> SyncOrder[1], phase |-> "start", sync |-> TRUE,
                  idx |-> 1, exit |-> FALSE]
    /\ last' = NoOutcome
    /\ UNCHANGED <<mem, sched, files, tasks, platv, hist,
                   epoch, n_creates, n_closes, start_id, n_cmds>>

\* __main__, lines 634-643: bot.run returns or raises (the client was
\* closed, the login failed); its loop is closed and every coroutine
\* cancelled; the finally block calls save_now_sync on the three stores.
BotRunEnds ==
    /\ LoopRuns
    /\ tasks' = EmptyBag
    /\ save_count' = [s \in Stores |-> 0]
    /\ save_task' = [s \in Stores |->
           IF save_task[s] = "pending" THEN "done" ELSE save_task[s]]
    /\ writer' = [s |-> SyncOrder[1], phase |-> "start", sync |-> TRUE,
                  idx |-> 1, exit |-> TRUE]
    /\ last' = NoOutcome
    /\ UNCHANGED <<mem, dirty, files, platv, hist, epoch, n_creates,
                   n_closes, start_id, n_signals, n_cmds>>

\* mutant: the dump is written to the target file itself
SaveOpen_InPlace ==
    /\ writer.phase = "start"
    /\ disk' = [disk EXCEPT ![writer.s] = PartialFile]
    /\ writer' = [writer EXCEPT !.phase = "writing"]
    /\ last' = NoOutcome
    /\ UNCHANGED <<mem, sched, tmp, lastFlushed, tasks, platv,
                   hist, epoch, n_creates, n_closes, start_id, n_signals, n_cmds>>

\* open(tmp_path, "w"): the temp file exists and is empty
SaveOpen ==
    /\ writer.phase = "start"
    /\ tmp' = [tmp EXCEPT ![writer.s] = PartialFile]
    /\ writer' = [writer EXCEPT !.phase = "writing"]
    /\ last' = NoOutcome
    /\ UNCHANGED <<mem, sched, disk, lastFlushed, tasks, platv,
                   hist, epoch, n_creates, n_closes, start_id, n_signals, n_cmds>>

\* json.dump ran to its end and the file was closed
SaveDump ==
    /\ writer.phase = "writing"
    /\ tmp' = [tmp EXCEPT ![writer.s] = Dump(Data(writer.s))]
    /\ writer' = [writer EXCEPT !.phase = "written"]
    /\ last' = NoOutcome
    /\ UNCHANGED <<mem, sched, disk, lastFlushed, tasks, platv,
                   hist, epoch, n_creates, n_closes, start_id, n_signals, n_cmds>>

\* what follows the write of store writer.s: the next save_now_sync of the
\* shutdown handler or of the finally block; after the last one the handler
\* returns to the loop and the finally block ends the process; a debounced
\* save returns to the loop
AfterSave ==
    IF writer.sync /\ writer.idx < Len(SyncOrder)
    THEN [s |-> SyncOrder[writer.idx + 1], phase |-> "start", sync |-> TRUE,
          idx |-> writer.idx + 1, exit |-> writer.exit]
    ELSE IF writer.exit THEN Exited
    ELSE NoWriter

\* the save coroutines in flight when the write of store writer.s ends
EndSaveTask ==
    IF writer.sync THEN save_count
    ELSE [save_count EXCEPT ![writer.s] = @ - 1]

\* the path the replace step writes to
ReplaceTarget(s) == s

\* os.replace(tmp_path, self.path); self._dirty = False
SaveReplace ==
    /\ writer.phase = "written"
    /\ disk' = [disk EXCEPT ![ReplaceTarget(writer.s)] = tmp[writer.s]]
    /\ tmp' = [tmp EXCEPT ![writer.s] = NoFile]
    /\ lastFlushed' = [lastFlushed EXCEPT ![writer.s] = Dump(Data(writer.s))]
    /\ dirty' = [dirty EXCEPT ![writer.s] = FALSE]
    /\ save_task' = IF writer.sync THEN save_task
                    ELSE [save_task EXCEPT ![writer.s] = "done"]
    /\ save_count' = EndSaveTask
    /\ writer' = AfterSave
    /\ last' = NoOutcome
    /\ UNCHANGED <<mem, tasks, platv, hist, epoch, n_creates,
                   n_closes, start_id, n_signals, n_cmds>>

\* mutant: the dirty flag is cleared although the write failed
SaveFail_MarksClean ==
    /\ writer.phase \in {"writing", "written"}
    /\ tmp' = IF writer.sync THEN tmp ELSE [tmp EXCEPT ![writer.s] = NoFile]
    /\ save_task' = IF writer.sync THEN save_task
                    ELSE [save_task EXCEPT ![writer.s] = "done"]
    /\ save_count' = EndSaveTask
    /\ dirty' = [dirty EXCEPT ![writer.s] = FALSE]
    /\ writer' = AfterSave
    /\ last' = NoOutcome
    /\ UNCHANGED <<mem, disk, lastFlushed, tasks, platv, hist,
                   epoch, n_creates, n_closes, start_id, n_signals, n_cmds>>

\* The write or the replace raises. save_now removes the temp file and
\* re-raises, which ends the save task; save_now_sync prints and returns.
SaveFail ==
    /\ writer.phase \in {"writing", "written"}
    /\ tmp' = IF writer.sync THEN tmp ELSE [tmp EXCEPT ![writer.s] = NoFile]
    /\ save_task' = IF writer.sync THEN save_task
                    ELSE [save_task EXCEPT ![writer.s] = "done"]
    /\ save_count' = EndSaveTask
    /\ writer' = AfterSave
    /\ last' = NoOutcome
    /\ UNCHANGED <<mem, dirty, disk, lastFlushed, tasks, platv, hist,
                   epoch, n_creates, n_closes, start_id, n_signals, n_cmds>>

\* _debounced_save and save_now as one step of the event loop, for the
\* behaviours in which the process is not killed inside a write: the sleep
\* is over, the document is dumped to the temp file, the temp file replaces
\* the target.
FlushNow(s) ==
    /\ LoopRuns
    /\ save_count[s] > 0
    /\ disk' = [disk EXCEPT ![ReplaceTarget(s)] = Dump(Data(s))]
    /\ tmp' = [tmp EXCEPT ![s] = NoFile]
    /\ lastFlushed' = [lastFlushed EXCEPT ![s] = Dump(Data(s))]
    /\ dirty' = [dirty EXCEPT ![s] = FALSE]
    /\ save_task' = [save_task EXCEPT ![s] = "done"]
    /\ save_count' = [save_count EXCEPT ![s] = @ - 1]
    /\ last' = NoOutcome
    /\ UNCHANGED <<mem, writer, tasks, platv, hist, epoch, n_creates,
                   n_closes, start_id, n_signals, n_cmds>>

\* The process is killed at any point and started again: the three Storage
\* constructors load their files, every coroutine is gone.
Crash ==
    /\ EnvEvents < MaxEnv
    /\ config' = Load(disk["config"], DefaultDoc("config"))
    /\ tickets' = Load(disk["tickets"], DefaultDoc("tickets"))
    /\ blacklist' = Load(disk["blacklist"], DefaultDoc("blacklist"))
    /\ dirty' = [s \in Stores |-> FALSE]
    /\ save_task' = [s \in Stores |-> "none"]
    /\ save_count' = [s \in Stores |-> 0]
    /\ writer' = NoWriter
    /\ tasks' = EmptyBag
    /\ last' = NoOutcome
    /\ epoch' = epoch + 1
    /\ start_id' = tickets'.last_id
    /\ closeWins' = [c \in DOMAIN closeWins |-> 0]
    /\ UNCHANGED <<files, platv, n_creates, n_closes, n_signals, n_cmds, allocLog,
                   inserted, announced, closedChans>>


\* ------------------------------------------------------------- helpers
\* mutant: the default config is stored whether or not the guild has one
ensure_guild_config_Reset(g) == Put(config, g, DefaultGuildConfig)

\* ensure_guild_config(gid): the config dict afterwards
ensure_guild_config(g) ==
    IF Has(config, g) THEN config ELSE Put(config, g, DefaultGuildConfig)

\* the stores ensure_guild_config(gid) marks dirty
EnsureDirty(g) == IF Has(config, g) THEN {} ELSE {"config"}

\* mutant: the roles of the user are not looked at
is_blacklisted_UsersOnly(g, u) ==
    IF u \in SeqToSet(blacklist.users) THEN "user" ELSE ""

\* is_blacklisted(guild, user): "user", "role" or "" (None)
is_blacklisted(g, u) ==
    IF u \in SeqToSet(blacklist.users) THEN "user"
    ELSE IF \E r \in RolesOf(g, u) : r \in SeqToSet(blacklist.roles) THEN "role"
    ELSE ""

\* lines 282-284: the configured category resolves to a category channel
CategoryValid(cfg, g) ==
    /\ cfg[g].ticket_category # None
    /\ cfg[g].ticket_category \in plat

\* ensure_logs_channel up to its await: the configured log channel or an
\* existing "logs-ticket" channel is returned without suspending.
LogResolved(g) ==
    \/ /\ ConfGet(g, "log_channel") # None
       /\ ConfGet(g, "log_channel") \in plat
    \/ LogsTicketOf(g) \in plat

\* the await at which a coroutine entering ensure_logs_channel suspends
LogEntry(g) == IF LogResolved(g) THEN "log_send" ELSE "log_create"

\* is_admin_or_staff.pred for user u issuing a command in guild g
is_admin_or_staff(g, u) ==
    \/ u \in Admins
    \/ /\ ConfGet(g, "staff_role") # None
       /\ ConfGet(g, "staff_role") \in RolesOf(g, u)

\* mutant: owning any ticket counts as owning the ticket of the channel
is_admin_or_staff_or_owner_AnyTicket(g, u, c) ==
    \/ u \in Admins
    \/ /\ ConfGet(g, "staff_role") # None
       /\ ConfGet(g, "staff_role") \in RolesOf(g, u)
    \/ \E d \in DOMAIN tickets.tickets : tickets.tickets[d].user = u

\* is_admin_or_staff_or_owner.pred for user u issuing a command in channel c
\* of guild g
is_admin_or_staff_or_owner(g, u, c) ==
    \/ u \in Admins
    \/ /\ ConfGet(g, "staff_role") # None
       /\ ConfGet(g, "staff_role") \in RolesOf(g, u)
    \/ /\ Has(tickets.tickets, c)
       /\ tickets.tickets[c].user = u

\* the guild a channel belongs to
GuildOfChan(c) == IF Has(plat_guild, c) THEN plat_guild[c] ELSE c - 30

\* --------------------------------------------------- ticket creation
\* button_callback: a button of guild g's panel is pressed by u; the
\* callback awaits interaction.response.defer.
StartCreate(g, u, ty) ==
    /\ LoopRuns
    /\ CanSpawn
    /\ n_creates < MaxCreates
    /\ n_creates' = n_creates + 1
    /\ Spawn([IdleTask EXCEPT !.kind = "create", !.pc = "defer",
                         !.gid = g, !.user = u, !.ttype = ty])
    /\ UNCHANGED <<mem, sched, files, writer, platv, hist, epoch,
                   n_closes, start_id, n_signals, n_cmds>>

\* mutant: the id is derived from the number of open tickets
NextId_FromRecords(g) == Cardinality(DOMAIN tickets.tickets) + 1

\* mutant: one counter per guild
NextId_PerGuild(g) ==
    1 + Cardinality({i \in 1..Len(allocLog) :
                        allocLog[i][1] = epoch /\ allocLog[i][2] = g})

\* the id a creation in guild g takes from the counter (line 293): the one
\* counter of the tickets document, whatever the guild
NextId(g) == tickets.last_id + 1

\* create_ticket_from_interaction, lines 274-310: from the defer to the
\* await of create_text_channel, or to a rejection.
CreateBody(t) ==
    LET g   == t.gid
        u   == t.user
        cfg == ensure_guild_config(g)
    IN
    /\ LoopRuns
    /\ t.kind = "create" /\ t.pc = "defer"
    /\ config' = cfg
    /\ mark_dirty(EnsureDirty(g))
    /\ IF ~CategoryValid(cfg, g)
       THEN /\ Finish(t, Outcome("create", "NotConfigured", t.chan, FALSE))
            /\ UNCHANGED <<tickets, allocLog>>
       ELSE IF is_blacklisted(g, u) # ""
       THEN /\ Finish(t, Outcome("create", "Blacklisted_" \o is_blacklisted(g, u), t.chan, FALSE))
            /\ UNCHANGED <<tickets, allocLog>>
       ELSE /\ tickets' = [tickets EXCEPT !.last_id = NextId(g)]
            /\ allocLog' = Append(allocLog, <<epoch, g, NextId(g)>>)
            /\ Goto(t, [t EXCEPT !.pc = "create_channel", !.tid = NextId(g)])
    /\ UNCHANGED <<blacklist, files, writer, platv, epoch, n_creates,
                   n_closes, start_id, n_signals, n_cmds, inserted, announced, closedChans,
                   closeWins>>

\* the id of the next channel the platform creates
FreshChan == Cardinality(DOMAIN plat_guild) + 1

\* the stores marked dirty after the record was inserted (line 318)
InsertDirty == {"tickets"}

\* mutant: the record takes the value of the counter at insertion
RecordId_AtInsert(t) == tickets.last_id
\* line 317: the record takes tid, the local variable assigned at line 294
RecordId(t) == t.tid

\* lines 310-320: create_text_channel returned; the record is inserted,
\* the store marked dirty, the follow-up awaited.
CreateChannelOk(t) ==
    LET ch == FreshChan IN
    /\ LoopRuns
    /\ t.kind = "create" /\ t.pc = "create_channel"
    /\ plat_guild' = Put(plat_guild, ch, t.gid)
    /\ plat_open' = plat_open \cup {ch}
    /\ tickets' = [tickets EXCEPT !.tickets =
           Put(@, ch, [id |-> RecordId(t), user |-> t.user,
                       type |-> t.ttype])]
    /\ mark_dirty(InsertDirty)
    /\ inserted' = inserted \cup {<<RecordId(t), ch>>}
    /\ closeWins' = Put(closeWins, ch, 0)
    /\ Goto(t, [t EXCEPT !.pc = "followup", !.chan = ch])
    /\ UNCHANGED <<config, blacklist, files, writer, plat, n_platdel, epoch,
                   n_creates, n_closes, start_id, n_signals, n_cmds, allocLog, announced,
                   closedChans>>

\* lines 311-314: create_text_channel raised; the user is told, the
\* coroutine returns.
CreateChannelFail(t) ==
    /\ LoopRuns
    /\ t.kind = "create" /\ t.pc = "create_channel"
    /\ Finish(t, Outcome("create", "PlatformCallFailed", t.chan, FALSE))
    /\ UNCHANGED <<mem, sched, files, writer, platv, hist, epoch,
                   n_creates, n_closes, start_id, n_signals, n_cmds>>

\* line 320 returned: "Ticket #tid created" reached the user; ch.send is
\* awaited next.
CreateFollowupOk(t) ==
    /\ LoopRuns
    /\ t.kind = "create" /\ t.pc = "followup"
    /\ announced' = announced \cup {<<t.tid, t.chan>>}
    /\ Goto(t, [t EXCEPT !.pc = "greet"])
    /\ UNCHANGED <<mem, sched, files, writer, platv, epoch,
                   n_creates, n_closes, start_id, n_signals, n_cmds, allocLog, inserted,
                   closedChans, closeWins>>

\* line 320 raised: nothing catches it, the coroutine ends.
CreateFollowupFail(t) ==
    /\ LoopRuns
    /\ t.kind = "create" /\ t.pc = "followup"
    /\ Finish(t, Outcome("create", "Error", t.chan, FALSE))
    /\ UNCHANGED <<mem, sched, files, writer, platv, hist, epoch,
                   n_creates, n_closes, start_id, n_signals, n_cmds>>

\* lines 321-325: ch.send returned or raised (swallowed); log_ticket_event
\* runs ensure_logs_channel up to its first await.
CreateGreeted(t) ==
    /\ LoopRuns
    /\ t.kind = "create" /\ t.pc = "greet"
    /\ Goto(t, [t EXCEPT !.pc = LogEntry(t.gid)])
    /\ UNCHANGED <<mem, sched, files, writer, platv, hist, epoch,
                   n_creates, n_closes, start_id, n_signals, n_cmds>>


\* ------------------------------------------------------ event-log path
\* the result of a handler of kind k that ran to its end
Done(k) == IF k = "create" THEN "Created" ELSE "Done"

\* The log path raised in coroutine t. log_ticket_event (creation and the
\* other commands) catches it and the handler ends normally; close calls ensure_logs_channel and
\* logs.send unguarded (lines 412-413), so the exception ends the close.
LogRaised(t) ==
    IF t.kind = "close"
    THEN Finish(t, Outcome("close", "Error", t.chan, TRUE))
    ELSE Finish(t, Outcome(t.kind, Done(t.kind), t.chan, TRUE))

\* The log message was sent by coroutine t: a creation is complete, a close
\* goes on to its follow-up (line 414).
LogSent(t) ==
    IF t.kind = "close"
    THEN Goto(t, [t EXCEPT !.pc = "followup"])
    ELSE Finish(t, Outcome(t.kind, Done(t.kind), t.chan, FALSE))

\* ensure_logs_channel, lines 143-148: the "logs-ticket" channel was
\* created, the config remembers it.
LogCreateOk(t) ==
    LET g == t.gid IN
    /\ LoopRuns
    /\ t.pc = "log_create"
    /\ plat' = plat \cup {LogsTicketOf(g)}
    /\ config' = [ensure_guild_config(g) EXCEPT ![g].log_channel = LogsTicketOf(g)]
    /\ mark_dirty({"config"})
    /\ Goto(t, [t EXCEPT !.pc = "log_send"])
    /\ UNCHANGED <<tickets, blacklist, files, writer, plat_guild, plat_open,
                   n_platdel, hist, epoch, n_creates, n_closes, start_id, n_signals, n_cmds>>

\* guild.create_text_channel("logs-ticket") raised
LogCreateFail(t) ==
    /\ LoopRuns
    /\ t.pc = "log_create"
    /\ LogRaised(t)
    /\ UNCHANGED <<mem, sched, files, writer, platv, hist, epoch,
                   n_creates, n_closes, start_id, n_signals, n_cmds>>

\* the send to the log channel returned
LogSendOk(t) ==
    /\ LoopRuns
    /\ t.pc = "log_send"
    /\ LogSent(t)
    /\ UNCHANGED <<mem, sched, files, writer, platv, hist, epoch,
                   n_creates, n_closes, start_id, n_signals, n_cmds>>

\* the send to the log channel raised
LogSendFail(t) ==
    /\ LoopRuns
    /\ t.pc = "log_send"
    /\ LogRaised(t)
    /\ UNCHANGED <<mem, sched, files, writer, platv, hist, epoch,
                   n_creates, n_closes, start_id, n_signals, n_cmds>>

\* ---------------------------------------------------------------- close
\* the channels a command can be issued in: the lobbies and the ticket
\* channels that still exist
Channels == {LobbyOf(g) : g \in Guilds} \cup plat_open

\* /close by u in channel c: the check passes, the handler awaits the defer.
StartClose(u, c) ==
    /\ LoopRuns
    /\ CanSpawn
    /\ n_closes < MaxCloses
    /\ c \in Channels
    /\ is_admin_or_staff_or_owner(GuildOfChan(c), u, c)
    /\ n_closes' = n_closes + 1
    /\ Spawn([IdleTask EXCEPT !.kind = "close", !.pc = "defer",
                         !.gid = GuildOfChan(c), !.user = u, !.chan = c])
    /\ UNCHANGED <<mem, sched, files, writer, platv, hist, epoch,
                   n_creates, start_id, n_signals, n_cmds>>

\* /close by u in channel c: the check raises CheckFailure, the handler
\* does not run.
CloseDenied(u, c) ==
    /\ LoopRuns
    /\ n_closes < MaxCloses
    /\ c \in Channels
    /\ ~is_admin_or_staff_or_owner(GuildOfChan(c), u, c)
    /\ n_closes' = n_closes + 1
    /\ last' = Outcome("close", "PermissionDenied", c, FALSE)
    /\ UNCHANGED <<mem, sched, files, writer, tasks, platv, hist,
                   epoch, n_creates, start_id, n_signals, n_cmds>>

\* line 406: the channel is a tracked ticket
Tracked(c) == Has(tickets.tickets, c)

\* mutant: mark_dirty is called before the check of line 406
CloseMarks_Always(c) == {"tickets"}

\* the stores close marks dirty: line 409 runs only past the return of line
\* 407
CloseMarks(c) == IF Tracked(c) THEN {"tickets"} ELSE {}

\* close, lines 405-411: from the defer to the await of the transcript, or
\* to the NotATicket reply.
CloseBody(t) ==
    LET c == t.chan IN
    /\ LoopRuns
    /\ t.kind = "close" /\ t.pc = "defer"
    /\ mark_dirty(CloseMarks(c))
    /\ IF ~Tracked(c)
       THEN /\ Finish(t, Outcome("close", "NotATicket", t.chan, FALSE))
            /\ UNCHANGED <<tickets, closedChans, closeWins>>
       ELSE /\ tickets' = [tickets EXCEPT !.tickets = Pop(@, c)]
            /\ closedChans' = closedChans \cup {c}
            /\ closeWins' = [closeWins EXCEPT ![c] = @ + 1]
            /\ Goto(t, [t EXCEPT !.pc = "transcript",
                                        !.tid = tickets.tickets[c].id])
    /\ UNCHANGED <<config, blacklist, files, writer, platv, epoch, n_creates,
                   n_closes, start_id, n_signals, n_cmds, allocLog, inserted, announced>>

\* line 411 returned: the transcript is built; ensure_logs_channel runs up
\* to its first await. The history of a deleted channel cannot be read.
TranscriptOk(t) ==
    /\ LoopRuns
    /\ t.kind = "close" /\ t.pc = "transcript"
    /\ t.chan \in plat_open
    /\ Goto(t, [t EXCEPT !.pc = LogEntry(t.gid)])
    /\ UNCHANGED <<mem, sched, files, writer, platv, hist, epoch,
                   n_creates, n_closes, start_id, n_signals, n_cmds>>

\* channel.history raised: the close ends with the exception.
TranscriptFail(t) ==
    /\ LoopRuns
    /\ t.kind = "close" /\ t.pc = "transcript"
    /\ Finish(t, Outcome("close", "Error", t.chan, FALSE))
    /\ UNCHANGED <<mem, sched, files, writer, platv, hist, epoch,
                   n_creates, n_closes, start_id, n_signals, n_cmds>>

\* line 414 returned; the one-second sleep and then channel.delete follow.
CloseFollowupOk(t) ==
    /\ LoopRuns
    /\ t.kind = "close" /\ t.pc = "followup"
    /\ Goto(t, [t EXCEPT !.pc = "delete"])
    /\ UNCHANGED <<mem, sched, files, writer, platv, hist, epoch,
                   n_creates, n_closes, start_id, n_signals, n_cmds>>

\* line 414 raised
CloseFollowupFail(t) ==
    /\ LoopRuns
    /\ t.kind = "close" /\ t.pc = "followup"
    /\ Finish(t, Outcome("close", "Error", t.chan, FALSE))
    /\ UNCHANGED <<mem, sched, files, writer, platv, hist, epoch,
                   n_creates, n_closes, start_id, n_signals, n_cmds>>

\* lines 415-419: channel.delete returned, or raised and was swallowed
CloseDelete(t) ==
    /\ LoopRuns
    /\ t.kind = "close" /\ t.pc = "delete"
    /\ \E ok \in BOOLEAN :
          plat_open' = IF ok THEN plat_open \ {t.chan} ELSE plat_open
    /\ Finish(t, Outcome("close", "Closed", t.chan, FALSE))
    /\ UNCHANGED <<mem, sched, files, writer, plat, plat_guild,
                   n_platdel, hist, epoch, n_creates, n_closes, start_id, n_signals, n_cmds>>

\* ------------------------------------------------- the other commands
\* a slash command of kind k by u in guild g, channel c, with the integer
\* argument n and the string argument a: the handler awaits the defer.
StartCmd(k, g, u, c, n, a) ==
    /\ LoopRuns
    /\ CanSpawn
    /\ n_cmds < MaxCmds
    /\ n_cmds' = n_cmds + 1
    /\ Spawn([IdleTask EXCEPT !.kind = k, !.pc = "defer", !.gid = g,
                         !.user = u, !.chan = c, !.tid = n, !.ttype = a])
    /\ UNCHANGED <<mem, sched, files, writer, platv, hist, epoch, n_creates,
                   n_closes, start_id, n_signals>>

\* a slash command of kind k whose check raises CheckFailure: the handler
\* does not run.
DenyCmd(k, c) ==
    /\ LoopRuns
    /\ n_cmds < MaxCmds
    /\ n_cmds' = n_cmds + 1
    /\ last' = Outcome(k, "PermissionDenied", c, FALSE)
    /\ UNCHANGED <<mem, sched, files, writer, tasks, platv, hist, epoch,
                   n_creates, n_closes, start_id, n_signals>>

\* the handler of t ends at its reply with result r and changes nothing
\* (return await interaction.followup.send(...))
ReplyOnly(t, r) ==
    /\ Finish(t, Outcome(t.kind, r, t.chan, FALSE))
    /\ UNCHANGED <<mem, sched, files, writer, platv, hist, epoch, n_creates,
                   n_closes, start_id, n_signals, n_cmds>>

\* the follow-up of a command returned: log_ticket_event runs
\* ensure_logs_channel up to its first await.
CmdFollowupOk(t) ==
    /\ LoopRuns
    /\ t.kind \in {"button", "setup", "blacklist"} /\ t.pc = "followup"
    /\ Goto(t, [t EXCEPT !.pc = LogEntry(t.gid)])
    /\ UNCHANGED <<mem, sched, files, writer, platv, hist, epoch, n_creates,
                   n_closes, start_id, n_signals, n_cmds>>

\* the follow-up of a command raised: nothing catches it.
CmdFollowupFail(t) ==
    /\ LoopRuns
    /\ t.kind \in {"button", "setup", "blacklist"} /\ t.pc = "followup"
    /\ ReplyOnly(t, "Error")

\* ---- /button
\* the strings handed to /button
NameInputs == {"b", "a a", "a b", " "}
\* names.split(), with empty parts dropped (line 507)
Split(a) ==
    CASE a = "b"   -> <<"b">>
      [] a = "a a" -> <<"a", "a">>
      [] a = "a b" -> <<"a", "b">>
      [] a = " "   -> <<>>

\* mutant: every part is appended, present or not
AddButtons_NoCheck(list, existing, parts) == list \o parts

\* lines 510-516: the loop over parts; list is custom_buttons, existing the
\* set built from it before the loop and extended with every added label
RECURSIVE AddButtons(_, _, _)
AddButtons(list, existing, parts) ==
    IF parts = <<>> THEN list
    ELSE IF Head(parts) \in existing
         THEN AddButtons(list, existing, Tail(parts))
         ELSE AddButtons(Append(list, Head(parts)),
                         existing \cup {Head(parts)}, Tail(parts))

\* /button names by u in guild g
ButtonStart(g, u, a) ==
    /\ is_admin_or_staff(g, u)
    /\ StartCmd("button", g, u, LobbyOf(g), 0, a)

ButtonDenied(g, u) ==
    /\ ~is_admin_or_staff(g, u)
    /\ DenyCmd("button", LobbyOf(g))

\* button_cmd, lines 504-521: from the defer to a reply.
ButtonBody(t) ==
    LET g     == t.gid
        cfg   == ensure_guild_config(g)
        old   == cfg[g].custom_buttons
        parts == Split(t.ttype)
        new   == AddButtons(old, SeqToSet(old), parts)
    IN
    /\ LoopRuns
    /\ t.kind = "button" /\ t.pc = "defer"
    /\ IF parts = <<>>
       THEN /\ config' = cfg
            /\ mark_dirty(EnsureDirty(g))
            /\ Finish(t, Outcome("button", "NoNames", t.chan, FALSE))
       ELSE IF new = old
       THEN /\ config' = cfg
            /\ mark_dirty(EnsureDirty(g))
            /\ Finish(t, Outcome("button", "NoNewButton", t.chan, FALSE))
       ELSE /\ config' = [cfg EXCEPT ![g].custom_buttons = new]
            /\ mark_dirty({"config"})
            /\ Goto(t, [t EXCEPT !.pc = "followup"])
    /\ UNCHANGED <<tickets, blacklist, files, writer, platv, hist, epoch,
                   n_creates, n_closes, start_id, n_signals, n_cmds>>

\* ---- /setup_ticket
\* /setup_ticket by u in guild g with the guild's category, staff role and
\* log channel (has_permissions(administrator=True))
SetupStart(g, u) ==
    /\ u \in Admins
    /\ StartCmd("setup", g, u, LobbyOf(g), 0, "")

\* mutant: the config is stored afresh, without the buttons and the panel
SetupBody_Fresh(t) ==
    LET g == t.gid IN
    /\ LoopRuns
    /\ t.kind = "setup" /\ t.pc = "defer"
    /\ config' = Put(config, g,
          [ticket_category |-> CatOf(g), staff_role |-> StaffRoleOf(g),
           log_channel |-> LogChanOf(g), custom_buttons |-> <<>>,
           panel_message |-> <<>>])
    /\ mark_dirty({"config"})
    /\ Goto(t, [t EXCEPT !.pc = "followup"])
    /\ UNCHANGED <<tickets, blacklist, files, writer, platv, hist, epoch,
                   n_creates, n_closes, start_id, n_signals, n_cmds>>

\* setup_ticket, lines 334-345: from the defer to the follow-up.
SetupBody(t) ==
    LET g == t.gid IN
    /\ LoopRuns
    /\ t.kind = "setup" /\ t.pc = "defer"
    /\ config' = Put(config, g,
          [ticket_category |-> CatOf(g), staff_role |-> StaffRoleOf(g),
           log_channel |-> LogChanOf(g),
           custom_buttons |-> IF Has(config, g) THEN config[g].custom_buttons
                              ELSE <<>>,
           panel_message |-> IF Has(config, g) THEN config[g].panel_message
                             ELSE <<>>])
    /\ mark_dirty({"config"})
    /\ Goto(t, [t EXCEPT !.pc = "followup"])
    /\ UNCHANGED <<tickets, blacklist, files, writer, platv, hist, epoch,
                   n_creates, n_closes, start_id, n_signals, n_cmds>>

\* ---- /rename and /add
\* the names handed to /rename
RenameInputs == {"A b", "c"}
\* the characters of a name
Chars(a) ==
    CASE a = "A b" -> <<"A", " ", "b">>
      [] a = "c"   -> <<"c">>

\* str.lower() on one character
Lower(ch) ==
    CASE ch = "A" -> "a"
      [] ch = "B" -> "b"
      [] OTHER    -> ch
\* str.replace(" ", "-") on one character
Hyphen(ch) == IF ch = " " THEN "-" ELSE ch

\* mutant: the name is stored as given
Sanitize_Raw(q) == q
\* line 429: new_name.replace(" ", "-").lower()
Sanitize(q) == [i \in 1..Len(q) |-> Lower(Hyphen(q[i]))]

\* /rename new_name by u in channel c: the check passes
RenameStart(u, c, a) ==
    /\ c \in Channels
    /\ is_admin_or_staff_or_owner(GuildOfChan(c), u, c)
    /\ StartCmd("rename", GuildOfChan(c), u, c, 0, a)

\* /rename or /add by u in channel c: the check raises CheckFailure
TicketCmdDenied(k, u, c) ==
    /\ c \in Channels
    /\ ~is_admin_or_staff_or_owner(GuildOfChan(c), u, c)
    /\ DenyCmd(k, c)

\* rename, lines 426-433: from the defer to the await of channel.edit, or to
\* the NotATicket reply.
RenameBody(t) ==
    LET c == t.chan IN
    /\ LoopRuns
    /\ t.kind = "rename" /\ t.pc = "defer"
    /\ IF ~Tracked(c)
       THEN ReplyOnly(t, "NotATicket")
       ELSE /\ tickets' = [tickets EXCEPT !.tickets[c] =
                             Put(@, "custom_name", Sanitize(Chars(t.ttype)))]
            /\ mark_dirty({"tickets"})
            /\ Goto(t, [t EXCEPT !.pc = "edit"])
            /\ UNCHANGED <<config, blacklist, files, writer, platv, hist,
                           epoch, n_creates, n_closes, start_id, n_signals,
                           n_cmds>>

\* lines 432-436: channel.edit returned or raised (the exception is
\* swallowed); the follow-up is awaited.
RenameEdited(t) ==
    /\ LoopRuns
    /\ t.kind = "rename" /\ t.pc = "edit"
    /\ Goto(t, [t EXCEPT !.pc = "followup"])
    /\ UNCHANGED <<mem, sched, files, writer, platv, hist, epoch, n_creates,
                   n_closes, start_id, n_signals, n_cmds>>

\* /add member by u in channel c: the check passes
AddStart(u, c) ==
    /\ c \in Channels
    /\ is_admin_or_staff_or_owner(GuildOfChan(c), u, c)
    /\ StartCmd("add", GuildOfChan(c), u, c, 0, "")

\* add, lines 444-447: from the defer to the await of set_permissions, or to
\* the NotATicket reply.
AddBody(t) ==
    /\ LoopRuns
    /\ t.kind = "add" /\ t.pc = "defer"
    /\ IF ~Tracked(t.chan)
       THEN ReplyOnly(t, "NotATicket")
       ELSE /\ Goto(t, [t EXCEPT !.pc = "set_permissions"])
            /\ UNCHANGED <<mem, sched, files, writer, platv, hist, epoch,
                           n_creates, n_closes, start_id, n_signals, n_cmds>>

\* line 447 returned: the channel still exists; the follow-up is awaited.
AddPermsOk(t) ==
    /\ LoopRuns
    /\ t.kind = "add" /\ t.pc = "set_permissions"
    /\ t.chan \in plat_open
    /\ Goto(t, [t EXCEPT !.pc = "followup"])
    /\ UNCHANGED <<mem, sched, files, writer, platv, hist, epoch, n_creates,
                   n_closes, start_id, n_signals, n_cmds>>

\* line 447 raised: nothing catches it.
AddPermsFail(t) ==
    /\ LoopRuns
    /\ t.kind = "add" /\ t.pc = "set_permissions"
    /\ ReplyOnly(t, "Error")

\* lines 437 and 449: the follow-up returned; the argument of
\* log_ticket_event reads the id of the record of the channel, which raises
\* KeyError when the record is gone; else ensure_logs_channel runs up to its
\* first await.
TicketFollowupOk(t) ==
    /\ LoopRuns
    /\ t.kind \in {"rename", "add"} /\ t.pc = "followup"
    /\ IF Tracked(t.chan)
       THEN /\ Goto(t, [t EXCEPT !.pc = LogEntry(t.gid)])
            /\ UNCHANGED <<mem, sched, files, writer, platv, hist, epoch,
                           n_creates, n_closes, start_id, n_signals, n_cmds>>
       ELSE ReplyOnly(t, "KeyError")

\* the follow-up of /rename or /add raised: nothing catches it.
TicketFollowupFail(t) ==
    /\ LoopRuns
    /\ t.kind \in {"rename", "add"} /\ t.pc = "followup"
    /\ ReplyOnly(t, "Error")

\* ---- /blacklist and /unblacklist
\* the strings handed to /blacklist and /unblacklist as target_id
IdInputs == {"42", "51", "52", "x"}
\* int(target_id) (line 459); None stands for ValueError
IntOf(a) ==
    CASE a = "42" -> 42
      [] a = "51" -> 51
      [] a = "52" -> 52
      [] OTHER    -> None

\* the roles of guild g
GuildRoles(g) == {50 + g, 60 + g}
\* guild.get_member(tid) finds a member: every user is a member of every
\* guild
get_member(g, n) == n \in Users \cup StaffUsers
\* mutant: a role of any guild is found
get_role_AnyGuild(g, n) == \E h \in Guilds : n \in GuildRoles(h)
\* guild.get_role(tid) finds a role
get_role(g, n) == n \in GuildRoles(g)

\* mutant: list.remove leaves the list as it was
ListRemove_Keep(q, x) == q
\* list.remove(x): the first occurrence of x is taken out
ListRemove(q, x) ==
    LET i == CHOOSE k \in 1..Len(q) :
                 q[k] = x /\ \A j \in 1..(k - 1) : q[j] # x
    IN SubSeq(q, 1, i - 1) \o SubSeq(q, i + 1, Len(q))

\* /blacklist target_id by u in guild g (has_permissions(administrator=True))
BlacklistStart(g, u, a) ==
    /\ u \in Admins
    /\ StartCmd("blacklist", g, u, LobbyOf(g), 0, a)

BlacklistDenied(g, u) ==
    /\ u \notin Admins
    /\ DenyCmd("blacklist", LobbyOf(g))

\* blacklist_cmd, lines 457-478: from the defer to the next await.
BlacklistBody(t) ==
    LET n == IntOf(t.ttype) IN
    /\ LoopRuns
    /\ t.kind = "blacklist" /\ t.pc = "defer"
    /\ IF n = None
       THEN /\ ReplyOnly(t, "InvalidId")
       ELSE IF get_member(t.gid, n)
       THEN IF n \in SeqToSet(blacklist.users)
            THEN ReplyOnly(t, "AlreadyListed")
            ELSE /\ blacklist' = [blacklist EXCEPT !.users = Append(@, n)]
                 /\ mark_dirty({"blacklist"})
                 /\ Goto(t, [t EXCEPT !.pc = "followup"])
                 /\ UNCHANGED <<config, tickets, files, writer, platv, hist,
                                epoch, n_creates, n_closes, start_id,
                                n_signals, n_cmds>>
       ELSE IF get_role(t.gid, n)
       THEN IF n \in SeqToSet(blacklist.roles)
            THEN ReplyOnly(t, "AlreadyListed")
            ELSE /\ blacklist' = [blacklist EXCEPT !.roles = Append(@, n)]
                 /\ mark_dirty({"blacklist"})
                 /\ Goto(t, [t EXCEPT !.pc = "followup"])
                 /\ UNCHANGED <<config, tickets, files, writer, platv, hist,
                                epoch, n_creates, n_closes, start_id,
                                n_signals, n_cmds>>
       ELSE ReplyOnly(t, "NotFound")

\* /unblacklist target_id by u in guild g
UnblacklistStart(g, u, a) ==
    /\ u \in Admins
    /\ StartCmd("unblacklist", g, u, LobbyOf(g), 0, a)

\* unblacklist_cmd, lines 485-497: from the defer to the reply.
UnblacklistBody(t) ==
    LET n == IntOf(t.ttype) IN
    /\ LoopRuns
    /\ t.kind = "unblacklist" /\ t.pc = "defer"
    /\ IF n = None
       THEN /\ ReplyOnly(t, "InvalidId")
       ELSE IF n \in SeqToSet(blacklist.users)
       THEN /\ blacklist' = [blacklist EXCEPT !.users = ListRemove(@, n)]
            /\ mark_dirty({"blacklist"})
            /\ Finish(t, Outcome("unblacklist", "RemovedUser", t.chan, FALSE))
            /\ UNCHANGED <<config, tickets, files, writer, platv, hist,
                           epoch, n_creates, n_closes, start_id,
                           n_signals, n_cmds>>
       ELSE IF n \in SeqToSet(blacklist.roles)
       THEN /\ blacklist' = [blacklist EXCEPT !.roles = ListRemove(@, n)]
            /\ mark_dirty({"blacklist"})
            /\ Finish(t, Outcome("unblacklist", "RemovedRole", t.chan, FALSE))
            /\ UNCHANGED <<config, tickets, files, writer, platv, hist,
                           epoch, n_creates, n_closes, start_id,
                           n_signals, n_cmds>>
       ELSE ReplyOnly(t, "NotListed")

\* -------------------------------------------------------- environment
\* somebody deletes a category or a log channel on the platform
PlatformDelete(x) ==
    /\ LoopRuns
    /\ EnvEvents < MaxEnv
    /\ x \in plat
    /\ plat' = plat \ {x}
    /\ n_platdel' = n_platdel + 1
    /\ last' = NoOutcome
    /\ UNCHANGED <<mem, sched, files, writer, tasks, plat_guild,
                   plat_open, hist, epoch, n_creates, n_closes, start_id,
                   n_signals, n_cmds>>

\* ------------------------------------------------------ specification
\* what /setup_ticket stores for guild g (lines 335-341, no custom buttons
\* and no panel yet)
SetupConfig(g) ==
    [ticket_category |-> CatOf(g), staff_role |-> StaffRoleOf(g),
     log_channel |-> LogChanOf(g), custom_buttons |-> <<>>,
     panel_message |-> <<>>]

\* The process starts on the files cf, tf, bf, with the ticket channels of
\* chans (channel -> guild) existing on the platform.
Boot(cf, tf, bf, chans) ==
    /\ disk = [s \in Stores |->
                 CASE s = "config"    -> cf
                   [] s = "tickets"   -> tf
                   [] s = "blacklist" -> bf]
    /\ tmp = [s \in Stores |-> NoFile]
    /\ lastFlushed = disk
    /\ config = Load(cf, DefaultDoc("config"))
    /\ tickets = Load(tf, DefaultDoc("tickets"))
    /\ blacklist = Load(bf, DefaultDoc("blacklist"))
    /\ dirty = [s \in Stores |-> FALSE]
    /\ save_task = [s \in Stores |-> "none"]
    /\ save_count = [s \in Stores |-> 0]
    /\ writer = NoWriter
    /\ tasks = EmptyBag
    /\ last = NoOutcome
    /\ plat = {CatOf(g) : g \in Guilds} \cup {LogChanOf(g) : g \in Guilds}
    /\ plat_guild = chans
    /\ plat_open = DOMAIN chans
    /\ epoch = 0
    /\ n_creates = 0
    /\ n_closes = 0
    /\ n_platdel = 0
    /\ n_signals = 0
    /\ n_cmds = 0
    /\ start_id = tickets.last_id
    /\ allocLog = <<>>
    /\ inserted = {<<tickets.tickets[c].id, c>> : c \in DOMAIN tickets.tickets}
    /\ announced = inserted
    /\ closedChans = {}
    /\ closeWins = [c \in DOMAIN chans |-> 0]

\* config.json left by an earlier run in which every guild was set up
SetupFile == Dump([g \in Guilds |-> SetupConfig(g)])
\* config.json left by an earlier run that knew guild 1 only
Setup1File == Dump([g \in {1} |-> SetupConfig(g)])

\* blacklist.json left by an earlier run: user 42 barred, or role 51 (held by
\* user 42 in guild 1) barred
InitBlacklistFiles ==
    {Dump([users |-> <<42>>, roles |-> <<>>]),
     Dump([users |-> <<>>, roles |-> <<51>>])}

\* tickets.json left by an earlier run: ticket 1 of user 42 in channel 1 of
\* guild 1, ticket 2 of user 41 in channel 2 of guild 2
OpenTicketsFile ==
    Dump([last_id |-> 2,
          tickets |-> [c \in {1, 2} |->
              [id |-> c, user |-> IF c = 1 THEN 42 ELSE 41, type |-> "Support"]]])
OpenChans == [c \in {1, 2} |-> c]

\* a start on an earlier run's config and blacklist, before the first ticket
InitCreate ==
    \E cf \in {Setup1File, SetupFile}, bf \in InitBlacklistFiles :
        Boot(cf, NoFile, bf, <<>>)

\* a start on an earlier run's files, two tickets open
InitClose == Boot(SetupFile, OpenTicketsFile, NoFile, OpenChans)

CreateSteps ==
    \/ \E g \in Guilds, u \in Users, ty \in TicketTypes : StartCreate(g, u, ty)
    \/ \E t \in Running : CreateBody(t)
    \/ \E t \in Running : CreateChannelOk(t)
    \/ \E t \in Running : CreateChannelFail(t)
    \/ \E t \in Running : CreateFollowupOk(t)
    \/ \E t \in Running : CreateFollowupFail(t)
    \/ \E t \in Running : CreateGreeted(t)

LogSteps ==
    \/ \E t \in Running : LogSendOk(t)
    \/ \E t \in Running : LogSendFail(t)

LogCreateSteps ==
    \/ \E t \in Running : LogCreateOk(t)
    \/ \E t \in Running : LogCreateFail(t)
    \/ \E g \in Guilds : PlatformDelete(LogChanOf(g))

CloseSteps ==
    \/ \E u \in Users, c \in Channels : StartClose(u, c)
    \/ \E u \in Users, c \in Channels : CloseDenied(u, c)
    \/ \E t \in Running : CloseBody(t)
    \/ \E t \in Running : TranscriptOk(t)
    \/ \E t \in Running : TranscriptFail(t)
    \/ \E t \in Running : CloseFollowupOk(t)
    \/ \E t \in Running : CloseFollowupFail(t)
    \/ \E t \in Running : CloseDelete(t)

SaveSteps ==
    \/ \E s \in Stores : DebouncedSave(s)
    \/ SaveOpen
    \/ SaveDump
    \/ SaveReplace

\* ticket creation, debounced saves, restarts
NextCreate ==
    CreateSteps \/ LogSteps \/ (\E s \in Stores : FlushNow(s)) \/ Crash
SpecCreate == InitCreate /\ [][NextCreate]_vars

\* ticket closure, debounced saves, restarts
NextClose ==
    CloseSteps \/ LogSteps \/ LogCreateSteps \/ SaveSteps \/ SaveFail \/ Crash
SpecClose == InitClose /\ [][NextClose]_vars

\* Closures by an administrator in ticket channels with every platform call
\* succeeding, debounced saves that succeed or fail, the shutdown handler's
\* saves, and the process killed at any step of a write.
StoreCloseSteps ==
    \/ \E u \in Admins, c \in plat_open : StartClose(u, c)
    \/ \E t \in Running : CloseBody(t)
    \/ \E t \in Running : TranscriptOk(t)
    \/ \E t \in Running : LogSendOk(t)
    \/ \E t \in Running : CloseFollowupOk(t)
    \/ \E t \in Running : CloseDelete(t)

NextStore == StoreCloseSteps \/ SaveSteps \/ SaveFail \/ SigSave \/ Crash
SpecStore == InitClose /\ [][NextStore]_vars

\* The same closures and debounced saves without signals and kills, under
\* the scheduling of the event loop: a coroutine whose await can return is
\* resumed, a sleeping save task wakes up, and a write that has started
\* goes on; a write may raise, and only as often as a save is attempted.
NextFlush == StoreCloseSteps \/ SaveSteps \/ SaveFail
LoopFairness ==
    /\ WF_vars(\E t \in Running : CloseBody(t))
    /\ WF_vars(\E t \in Running : TranscriptOk(t))
    /\ WF_vars(\E t \in Running : LogSendOk(t))
    /\ WF_vars(\E t \in Running : CloseFollowupOk(t))
    /\ WF_vars(\E t \in Running : CloseDelete(t))
    /\ \A s \in Stores : WF_vars(DebouncedSave(s))
    /\ WF_vars(SaveOpen)
    /\ WF_vars(SaveDump)
    /\ WF_vars(SaveReplace)
SpecFlush == InitClose /\ [][NextFlush]_vars /\ LoopFairness

\* the same with every write succeeding
NextFlushOk == StoreCloseSteps \/ SaveSteps
SpecFlushOk == InitClose /\ [][NextFlushOk]_vars /\ LoopFairness

\* a start without files, or on an earlier run's config that knew guild 1 only
InitConfig ==
    \E cf \in {NoFile, Setup1File} : Boot(cf, NoFile, NoFile, <<>>)

ConfigCmdSteps ==
    \/ \E g \in Guilds, u \in Users \cup StaffUsers, a \in NameInputs :
          ButtonStart(g, u, a)
    \/ \E g \in Guilds, u \in Users : ButtonDenied(g, u)
    \/ \E t \in Running : ButtonBody(t)
    \/ \E g \in Guilds, u \in Users : SetupStart(g, u)
    \/ \E t \in Running : SetupBody(t)
    \/ \E t \in Running : CmdFollowupOk(t)
    \/ \E t \in Running : CmdFollowupFail(t)
    \/ \E t \in Running : LogCreateOk(t)
    \/ \E t \in Running : LogCreateFail(t)

\* /button and /setup_ticket, debounced saves
NextButton ==
    ConfigCmdSteps \/ LogSteps \/ (\E s \in Stores : FlushNow(s))
SpecButton == InitConfig /\ [][NextButton]_vars

\* /close, /rename and /add by an administrator (41), a ticket owner (42)
\* and a staff member (43) in the ticket channels that exist
TicketCmdUsers == Users \cup StaffUsers
\* closes count against the budget of the commands
TicketCmdBudget == n_closes + n_cmds < MaxCmds
TicketCmdSteps ==
    \/ \E u \in TicketCmdUsers, c \in plat_open :
          TicketCmdBudget /\ StartClose(u, c)
    \/ \E u \in TicketCmdUsers, c \in plat_open :
          TicketCmdBudget /\ CloseDenied(u, c)
    \/ \E t \in Running : CloseBody(t)
    \/ \E t \in Running : TranscriptOk(t)
    \/ \E t \in Running : TranscriptFail(t)
    \/ \E t \in Running : CloseFollowupOk(t)
    \/ \E t \in Running : CloseFollowupFail(t)
    \/ \E t \in Running : CloseDelete(t)
    \/ \E u \in TicketCmdUsers, c \in plat_open, a \in RenameInputs :
          TicketCmdBudget /\ RenameStart(u, c, a)
    \/ \E u \in TicketCmdUsers, c \in plat_open :
          TicketCmdBudget /\ TicketCmdDenied("rename", u, c)
    \/ \E t \in Running : RenameBody(t)
    \/ \E t \in Running : RenameEdited(t)
    \/ \E u \in TicketCmdUsers, c \in plat_open :
          TicketCmdBudget /\ AddStart(u, c)
    \/ \E u \in TicketCmdUsers, c \in plat_open :
          TicketCmdBudget /\ TicketCmdDenied("add", u, c)
    \/ \E t \in Running : AddBody(t)
    \/ \E t \in Running : AddPermsOk(t)
    \/ \E t \in Running : AddPermsFail(t)
    \/ \E t \in Running : TicketFollowupOk(t)
    \/ \E t \in Running : TicketFollowupFail(t)

NextTicketCmds == TicketCmdSteps \/ LogSteps
SpecTicketCmds == InitClose /\ [][NextTicketCmds]_vars

\* Commands of administrator 41 that touch a guild's config with or without
\* ensure_guild_config: ticket creation, /button, /setup_ticket, and /close
\* in the lobby (by 41, passing the check, or by 42, failing it); all
\* commands share one budget.
EnsureBudget == n_creates + n_closes + n_cmds < MaxCmds
EnsureSteps ==
    \/ \E g \in Guilds, ty \in TicketTypes :
          EnsureBudget /\ StartCreate(g, 41, ty)
    \/ \E t \in Running : CreateBody(t)
    \/ \E t \in Running : CreateChannelOk(t)
    \/ \E t \in Running : CreateFollowupOk(t)
    \/ \E t \in Running : CreateGreeted(t)
    \/ \E g \in Guilds : EnsureBudget /\ ButtonStart(g, 41, "b")
    \/ \E t \in Running : ButtonBody(t)
    \/ \E g \in Guilds : EnsureBudget /\ SetupStart(g, 41)
    \/ \E t \in Running : SetupBody(t)
    \/ \E t \in Running : CmdFollowupOk(t)
    \/ \E g \in Guilds : EnsureBudget /\ StartClose(41, LobbyOf(g))
    \/ \E g \in Guilds : EnsureBudget /\ CloseDenied(42, LobbyOf(g))
    \/ \E t \in Running : CloseBody(t)
    \/ \E t \in Running : LogCreateOk(t)
    \/ \E t \in Running : LogSendOk(t)

NextEnsure == EnsureSteps \/ (\E s \in Stores : FlushNow(s)) \/ Crash
SpecEnsure == InitConfig /\ [][NextEnsure]_vars

\* config.json left by an earlier run: guild 1 was set up with a category
\* (99) and a log channel (98) that no longer exist, has the custom button
\* "a" and a panel (message 7 in channel 31); guild 2 is unknown
OldSetupFile ==
    Dump([g \in {1} |->
            [ticket_category |-> 99, staff_role |-> StaffRoleOf(g),
             log_channel |-> 98, custom_buttons |-> <<"a">>,
             panel_message |-> <<31, 7>>]])

\* a start on that config or without one, two tickets open, user 42 barred
InitSetup ==
    \E cf \in {NoFile, OldSetupFile} :
        Boot(cf, OpenTicketsFile, Dump([users |-> <<42>>, roles |-> <<>>]),
             OpenChans)

\* /setup_ticket and /button, debounced saves
SpecSetup == InitSetup /\ [][NextButton]_vars

\* a start on a full config, with no blacklist file or with role 51 barred
InitBlacklist ==
    \E bf \in {NoFile, Dump([users |-> <<>>, roles |-> <<51>>])} :
        Boot(SetupFile, NoFile, bf, <<>>)

BlacklistSteps ==
    \/ \E g \in Guilds, a \in IdInputs : BlacklistStart(g, 41, a)
    \/ \E g \in Guilds : BlacklistDenied(g, 42)
    \/ \E g \in Guilds, a \in IdInputs : UnblacklistStart(g, 41, a)
    \/ \E t \in Running : BlacklistBody(t)
    \/ \E t \in Running : UnblacklistBody(t)
    \/ \E t \in Running : CmdFollowupOk(t)
    \/ \E t \in Running : CmdFollowupFail(t)

\* ticket creation in guild 2 by user 42, who holds role 51 in guild 1 and
\* role 52 in guild 2
BlacklistCreateSteps ==
    \/ \E ty \in TicketTypes : StartCreate(2, 42, ty)
    \/ \E t \in Running : CreateBody(t)
    \/ \E t \in Running : CreateChannelOk(t)
    \/ \E t \in Running : CreateChannelFail(t)
    \/ \E t \in Running : CreateFollowupOk(t)
    \/ \E t \in Running : CreateFollowupFail(t)
    \/ \E t \in Running : CreateGreeted(t)

\* /blacklist and /unblacklist, debounced saves
NextBlacklist ==
    \/ BlacklistSteps
    \/ LogSteps
    \/ \E s \in Stores : FlushNow(s)
SpecBlacklist == InitBlacklist /\ [][NextBlacklist]_vars

\* /blacklist of user 42, of role 51 or of role 52 in guild 1, and ticket
\* creation by user 42 in guild 2
NextBlacklistCreate ==
    \/ \E a \in {"42", "51", "52"} : BlacklistStart(1, 41, a)
    \/ \E t \in Running : BlacklistBody(t)
    \/ \E t \in Running : CmdFollowupOk(t)
    \/ BlacklistCreateSteps
    \/ LogSteps
SpecBlacklistCreate == InitBlacklist /\ [][NextBlacklistCreate]_vars

\* Closures as in SpecStore with every write succeeding, the shutdown
\* handler, the end of bot.run, and kills.
NextShutdown ==
    StoreCloseSteps \/ SaveSteps \/ SigSave \/ BotRunEnds \/ Crash
SpecShutdown == InitClose /\ [][NextShutdown]_vars


\* ============================================================ properties
\* t is at an await in the first state and the step resumes it (a restart
\* increments epoch and resumes nothing)
Resumed(t) == CopiesIn(t, tasks') < CopiesIn(t, tasks) /\ epoch' = epoch

\* the entries of allocLog written by the running process
ThisRun == {i \in 1..Len(allocLog) : allocLog[i][1] = epoch}

\* ---- C1
\* C1: among the creations of one run of the process, whatever their
\* interleaving, no two take the same ticket id, and the ids taken increase
\* strictly in the order in which the counter was read.
C1_IdsUniqueAndIncreasing ==
    /\ \A i, j \in 1..Len(allocLog) :
          (i < j /\ allocLog[i][1] = allocLog[j][1])
              => allocLog[i][3] < allocLog[j][3]
    /\ \A t1, t2 \in Running :
          (t1.kind = "create" /\ t2.kind = "create" /\ t1.tid # 0
             /\ t1.tid = t2.tid)
              => (t1 = t2 /\ CopiesIn(t1, tasks) = 1)

\* two creations are suspended at create_text_channel at once
C1_Witness ==
    \E t1, t2 \in Running :
        /\ t1.pc = "create_channel" /\ t2.pc = "create_channel"
        /\ t1.tid # t2.tid

\* ---- C2
\* C2: when no creation is in flight, every id in 1..last_id was given to a
\* record that was inserted into the registry (no id is lost).
C2_NoIdLost ==
    (Running = {}) =>
        \A i \in 1..tickets.last_id : \E x \in inserted : x[1] = i

\* ---- C3
\* C3: an id announced for one ticket is never given to another ticket, also
\* across a kill of the process and the reload of tickets.json.
C3_IdNeverReused ==
    \A a \in announced, x \in inserted : a[1] = x[1] => a[2] = x[2]

NoValidCategory(g) ==
    \/ ~Has(config, g)
    \/ config[g].ticket_category = None
    \/ config[g].ticket_category \notin plat
BarredAsUser(u) == \E i \in 1..Len(blacklist.users) : blacklist.users[i] = u
BarredByRole(g, u) ==
    \E i \in 1..Len(blacklist.roles) : blacklist.roles[i] \in RolesOf(g, u)

\* C5: a creation in a guild without a valid category ends with
\* NotConfigured; one by a requester barred as user, or else through a role,
\* in a guild with a valid category ends with Blacklisted(user), or else
\* Blacklisted(role); in all three cases the tickets document (records and
\* last_id) is unchanged and no record is inserted.
C5_RejectionChangesNothing ==
    [][\A t \in Running :
          (t.kind = "create" /\ t.pc = "defer" /\ Resumed(t)) =>
            /\ NoValidCategory(t.gid) =>
                 /\ last' = Outcome("create", "NotConfigured", 0, FALSE)
                 /\ tickets' = tickets /\ inserted' = inserted
            /\ (~NoValidCategory(t.gid) /\ BarredAsUser(t.user)) =>
                 /\ last' = Outcome("create", "Blacklisted_user", 0, FALSE)
                 /\ tickets' = tickets /\ inserted' = inserted
            /\ (/\ ~NoValidCategory(t.gid) /\ ~BarredAsUser(t.user)
                /\ BarredByRole(t.gid, t.user)) =>
                 /\ last' = Outcome("create", "Blacklisted_role", 0, FALSE)
                 /\ tickets' = tickets /\ inserted' = inserted
      ]_vars

\* a requester barred through a role was rejected while tickets exist
C5_Witness ==
    /\ last = Outcome("create", "Blacklisted_role", 0, FALSE)
    /\ tickets.last_id >= 1
    /\ DOMAIN tickets.tickets # {}

\* ---- C6
\* C6: once a close has removed the record of a channel, no later state
\* holds a record for that channel, also after a kill and a reload.
C6_ClosedStaysClosed ==
    \A c \in closedChans : ~Has(tickets.tickets, c)

\* ---- C7
\* C7: a close resumed in a channel that is not a tracked ticket ends with
\* NotATicket and leaves the tickets document, the config, the blacklist and
\* the dirty flags and save tasks of the stores unchanged.
C7_UntrackedCloseChangesNothing ==
    [][\A t \in Running :
          (/\ t.kind = "close" /\ t.pc = "defer" /\ Resumed(t)
           /\ t.chan \notin DOMAIN tickets.tickets) =>
            /\ last' = Outcome("close", "NotATicket", t.chan, FALSE)
            /\ UNCHANGED <<tickets, config, blacklist, sched>>
      ]_vars

\* a close ended with NotATicket while the tickets store was clean
C7_Witness ==
    /\ last.kind = "close" /\ last.result = "NotATicket"
    /\ ~dirty["tickets"]
    /\ save_task["tickets"] = "none"

\* ---- C8
\* C8: of the closes of one run on one channel, at most one removes the
\* record; a close resumed on a tracked channel removes the record and goes
\* on with it; a close resumed after another one removed the record ends
\* with NotATicket.
C8_OneCloseWins ==
    /\ [](\A c \in DOMAIN closeWins : closeWins[c] <= 1)
    /\ [][\A t \in Running :
            (t.kind = "close" /\ t.pc = "defer" /\ Resumed(t)) =>
              /\ Has(tickets.tickets, t.chan) =>
                   /\ ~Has(tickets'.tickets, t.chan)
                   /\ closeWins'[t.chan] = 1
                   /\ \E r \in BagToSet(tasks') :
                         /\ r.kind = "close" /\ r.chan = t.chan
                         /\ r.pc = "transcript"
                         /\ r.tid = tickets.tickets[t.chan].id
              /\ (Has(closeWins, t.chan) /\ closeWins[t.chan] >= 1) =>
                   /\ last' = Outcome("close", "NotATicket", t.chan, FALSE)
                   /\ closeWins' = closeWins
        ]_vars

\* a close ended with NotATicket on a channel another close had removed
C8_Witness ==
    /\ last.kind = "close" /\ last.result = "NotATicket"
    /\ Has(closeWins, last.chan)
    /\ closeWins[last.chan] = 1

\* ---- C9
\* C9: a handler whose event-log path raised still ends normally: the
\* creation as created, the close as closed (requester notified, channel
\* deletion performed).
C9_LogFailureHarmless ==
    last.logfail => last.result \in {"Created", "Closed"}

\* ---- C10
\* C10: at every point, also inside a write and after a kill at any step of
\* it, loading the target file of a store yields the default document when
\* no replace has completed, and otherwise the document of the last replace
\* that completed.
C10_TargetNeverPartial ==
    \A s \in Stores :
        /\ disk[s].st # "partial"
        /\ Load(disk[s], DefaultDoc(s)) =
              IF lastFlushed[s].st = "none" THEN DefaultDoc(s)
              ELSE lastFlushed[s].doc

\* the process was killed with the temp file of tickets partly written,
\* after an earlier flush of a changed document had completed
C10_Witness ==
    /\ epoch > 0
    /\ tmp["tickets"].st = "partial"
    /\ lastFlushed["tickets"] # OpenTicketsFile
    /\ tickets = lastFlushed["tickets"].doc

\* ---- C11
\* C11: every store has at most one save coroutine in flight, and has one
\* exactly when its save task is pending; a step that finds the save of a
\* store pending starts no further one for it; and a step that completes a
\* flush (the dirty flag falls) leaves in the target file the whole document
\* the store holds in memory at that moment.
C11_OnePendingSaveWritesAll ==
    /\ [](\A s \in Stores :
            /\ save_count[s] <= 1
            /\ save_count[s] = 1 <=> save_task[s] = "pending")
    /\ [][\A s \in Stores :
            /\ (save_task[s] = "pending" /\ epoch' = epoch)
                  => save_count'[s] <= save_count[s]
            /\ (dirty[s] /\ ~dirty'[s] /\ epoch' = epoch)
                  => /\ disk'[s] = Dump(Data(s)')
                     /\ Data(s)' = Data(s)
        ]_vars

\* one debounced flush of tickets is about to replace the target with a
\* document from which two closes, the second one made while the save was
\* pending, have removed both records
C11_Witness ==
    /\ epoch = 0
    /\ writer.s = "tickets" /\ writer.phase = "written" /\ ~writer.sync
    /\ save_count["tickets"] = 1
    /\ DOMAIN tickets.tickets = {}
    /\ tmp["tickets"] = Dump(tickets)
    /\ disk["tickets"] = OpenTicketsFile

\* ---- C12
\* the step ends a debounced write of store s with an exception: json.dump
\* raised, or os.replace raised and left the target as it was
FlushRaised(s) ==
    /\ writer.s = s /\ ~writer.sync
    /\ writer'.phase = "idle" /\ epoch' = epoch
    /\ \/ writer.phase = "writing"
       \/ /\ writer.phase = "written"
          /\ disk[s] # tmp[s] /\ disk'[s] = disk[s]

\* C12: a debounced flush that raises leaves the dirty flag, the three
\* in-memory documents, the target file and every handler coroutine as they
\* were, and ends the save task; and every later step that changes the
\* tickets document and marks it dirty has one save task pending for it again.
C12_FlushFailureRetried ==
    [][
        /\ \A s \in Stores :
             FlushRaised(s) =>
               /\ dirty'[s] = dirty[s]
               /\ UNCHANGED <<mem, tasks, disk, lastFlushed>>
               /\ save_task'[s] = "done" /\ save_count'[s] = 0
        /\ (tickets' # tickets /\ epoch' = epoch) =>
               /\ dirty'["tickets"]
               /\ save_task'["tickets"] = "pending"
               /\ save_count'["tickets"] = 1
      ]_vars

\* a debounced flush of tickets has just failed: the store is dirty, its
\* save task is done, its document differs from the target file, and a
\* close that will mark it dirty again waits at its defer
C12_Witness ==
    /\ epoch = 0
    /\ dirty["tickets"]
    /\ save_task["tickets"] = "done" /\ save_count["tickets"] = 0
    /\ tmp["tickets"] = NoFile
    /\ disk["tickets"] = OpenTicketsFile
    /\ tickets # OpenTicketsFile.doc
    /\ \E t \in Running :
          t.kind = "close" /\ t.pc = "defer" /\ Has(tickets.tickets, t.chan)

\* ---- C13
\* the step completes the last save_now_sync of a shutdown path (the signal
\* handler or the finally block of __main__)
ShutdownFlushEnds ==
    /\ writer.sync /\ writer.idx = Len(SyncOrder)
    /\ writer.phase = "written"
    /\ epoch' = epoch

\* C13: on the signal path and on the normal-exit path alike, when the
\* synchronous flush of the three stores has run the process exits, and the
\* target file of every store then holds the store's in-memory document.
C13_ShutdownFlushesThenExits ==
    [][ShutdownFlushEnds =>
          /\ writer'.phase = "exited"
          /\ \A s \in Stores : disk'[s] = Dump(Data(s)')
      ]_vars

\* the normal-exit half of C13 alone: it holds
NormalExitFlushes ==
    [][(ShutdownFlushEnds /\ writer.exit) =>
          /\ writer'.phase = "exited"
          /\ \A s \in Stores : disk'[s] = Dump(Data(s)')
      ]_vars

\* the process has exited through the finally block while a debounced save
\* of a changed tickets document was still pending
NormalExitReached ==
    /\ writer.phase = "exited"
    /\ dirty = [s \in Stores |-> FALSE]
    /\ tickets # OpenTicketsFile.doc
    /\ lastFlushed["tickets"] = Dump(tickets)

\* ---------------------------------------------------------------- C14
NoDup(q) == \A i, j \in 1..Len(q) : q[i] = q[j] => i = j
IsPrefix(p, q) == Len(p) <= Len(q) /\ SubSeq(q, 1, Len(p)) = p
\* the custom button labels of guild g in the document d
LabelsIn(d, g) == IF Has(d, g) THEN d[g].custom_buttons ELSE <<>>
\* x comes before y in q, by first occurrence
Before(q, x, y) ==
    \E i \in 1..Len(q) : /\ q[i] = x
                         /\ \A j \in 1..i : q[j] # y

\* C14: the custom button labels of a guild never hold a label twice, in
\* memory or in config.json; button_cmd keeps the labels it found as a
\* prefix, in their order, and adds exactly the names that were missing,
\* once each and in the order of their first mention; when every name is
\* already present it changes nothing and answers "no new button", which is
\* a reply and not an error; no other step shortens or reorders the labels.
C14_ButtonLabelsDistinctOrdered ==
    /\ [](\A g \in Guilds :
            /\ NoDup(LabelsIn(config, g))
            /\ disk["config"].st = "full" =>
                   NoDup(LabelsIn(disk["config"].doc, g)))
    /\ [][
          /\ \A g \in Guilds :
                IsPrefix(LabelsIn(config, g), LabelsIn(config', g))
          /\ \A t \in Running :
                (Resumed(t) /\ t.kind = "button" /\ t.pc = "defer") =>
                LET old   == LabelsIn(config, t.gid)
                    new   == LabelsIn(config', t.gid)
                    names == Split(t.ttype)
                    fresh == SeqToSet(names) \ SeqToSet(old)
                IN /\ SeqToSet(new) = SeqToSet(old) \cup SeqToSet(names)
                   /\ Len(new) = Len(old) + Cardinality(fresh)
                   /\ \A x, y \in fresh :
                         (x # y /\ Before(names, x, y)) => Before(new, x, y)
                   /\ (names # <<>> /\ fresh = {}) =>
                         /\ new = old
                         /\ last'.kind = "button"
                         /\ last'.result = "NoNewButton"
                   /\ \A g \in Guilds \ {t.gid} :
                         LabelsIn(config', g) = LabelsIn(config, g)
       ]_vars

\* "a a" was added to a guild, one "a" is there, and a second /button with
\* names already present was answered "no new button"; the other guild got
\* "b" first and "a" after it
C14_Witness ==
    /\ last.kind = "button" /\ last.result = "NoNewButton"
    /\ \E g \in Guilds : LabelsIn(config, g) = <<"a">>

C14_OrderReached ==
    \E g \in Guilds : LabelsIn(config, g) = <<"b", "a">>

\* ---------------------------------------------------------------- C15
Members == Users \cup StaffUsers
\* some role user u holds in guild g is in the role list
RoleListed(g, u) == RolesOf(g, u) \cap SeqToSet(blacklist.roles) # {}

\* C15: the blacklist check follows membership. In every state a listed
\* user is blocked as user, also when one of their roles is listed; a user
\* who is not listed but holds a listed role is blocked through the role;
\* anybody else is not blocked. /blacklist of a member leaves the check of
\* that member at "user"; /blacklist of a role of the guild blocks every
\* holder of the role; /unblacklist of a listed user takes the id out of the
\* user list, touches no role, and the check of that user is then "" unless
\* a role of theirs is listed.
C15_BlacklistCheckFollowsMembership ==
    /\ [](\A g \in Guilds, u \in Members :
            is_blacklisted(g, u) =
               IF u \in SeqToSet(blacklist.users) THEN "user"
               ELSE IF RoleListed(g, u) THEN "role" ELSE "")
    /\ [][
          \A t \in Running :
             (Resumed(t) /\ t.pc = "defer") =>
             LET n == IntOf(t.ttype) IN
             /\ (t.kind = "blacklist" /\ n \in Members) =>
                   \A g \in Guilds : is_blacklisted(g, n)' = "user"
             /\ (t.kind = "blacklist" /\ n \in GuildRoles(t.gid)) =>
                   \A u \in Members :
                      n \in RolesOf(t.gid, u) => is_blacklisted(t.gid, u)' # ""
             /\ (t.kind = "unblacklist" /\ n \in SeqToSet(blacklist.users)) =>
                   /\ n \notin SeqToSet(blacklist'.users)
                   /\ blacklist'.roles = blacklist.roles
                   /\ \A g \in Guilds :
                         is_blacklisted(g, n)' =
                            IF RoleListed(g, n) THEN "role" ELSE ""
       ]_vars

\* user 42 was blacklisted and taken off again; no role of theirs is
\* listed and the check returns None
C15_Witness ==
    /\ last.kind = "unblacklist" /\ last.result = "RemovedUser"
    /\ blacklist.users = <<>> /\ blacklist.roles = <<>>
    /\ is_blacklisted(1, 42) = ""

\* user 42 is listed and so is their role 51: blocked as user
C15_BothReached ==
    /\ 42 \in SeqToSet(blacklist.users) /\ 51 \in SeqToSet(blacklist.roles)
    /\ is_blacklisted(1, 42) = "user"

\* ---------------------------------------------------------------- C16
BlacklistStep(t) == Resumed(t) /\ t.kind = "blacklist" /\ t.pc = "defer"

C16_RoleKeptToGuild ==
    /\ 51 \in SeqToSet(blacklist.roles)
    /\ \E c \in DOMAIN tickets.tickets : tickets.tickets[c].user = 42

\* ---------------------------------------------------------------- C17
\* the policy: administrator, holder of the staff role configured for the
\* guild, or owner of the ticket of the channel
AdminOrStaffOrOwner(g, u, c) ==
    \/ u \in Admins
    \/ /\ Has(config, g)
       /\ config[g].staff_role # None
       /\ config[g].staff_role \in RolesOf(g, u)
    \/ /\ c \in DOMAIN tickets.tickets
       /\ tickets.tickets[c].user = u

\* C17: a handler of /close, /rename or /add only starts for an actor the
\* policy admits in that channel; a record is removed or changed only by the
\* step of a /close or /rename handler issued in its channel by an actor who
\* is administrator, staff or the owner of that record; /add goes on to
\* set_permissions only for such an actor.
C17_OnlyUnderPolicy ==
    [][
       /\ \A t \in BagToSet(tasks') :
             (CopiesIn(t, tasks') > CopiesIn(t, tasks)
                /\ t.kind \in {"close", "rename", "add"} /\ t.pc = "defer") =>
             AdminOrStaffOrOwner(t.gid, t.user, t.chan)
       /\ \A c \in DOMAIN tickets.tickets :
             (c \notin DOMAIN tickets'.tickets
                \/ tickets'.tickets[c] # tickets.tickets[c]) =>
             \E t \in Running :
                /\ Resumed(t) /\ t.pc = "defer" /\ t.chan = c
                /\ t.kind = IF c \in DOMAIN tickets'.tickets
                            THEN "rename" ELSE "close"
                /\ \/ t.user \in Admins
                   \/ config[t.gid].staff_role \in RolesOf(t.gid, t.user)
                   \/ tickets.tickets[c].user = t.user
       /\ \A t \in Running :
             (Resumed(t) /\ t.kind = "add" /\ t.pc = "defer"
                /\ CopiesIn([t EXCEPT !.pc = "set_permissions"], tasks')
                      > CopiesIn([t EXCEPT !.pc = "set_permissions"], tasks)) =>
             AdminOrStaffOrOwner(t.gid, t.user, t.chan)
    ]_vars

\* user 42, neither administrator nor staff, closed their own ticket in
\* channel 1 and was refused /close in channel 2, the ticket of user 41
C17_Witness ==
    /\ last.kind = "close" /\ last.result = "PermissionDenied" /\ last.chan = 2
    /\ Tracked(2) /\ tickets.tickets[2].user = 41
    /\ ~Tracked(1)
    /\ \E t \in Running : t.kind = "close" /\ t.user = 42 /\ t.chan = 1

\* the staff member renamed the ticket of user 42
C17_StaffReached ==
    /\ Tracked(1) /\ Has(tickets.tickets[1], "custom_name")
    /\ \E t \in Running : t.kind = "rename" /\ t.user = 43 /\ t.chan = 1

\* ---------------------------------------------------------------- C20
\* C20: the step of a /rename handler in a tracked channel gives the record
\* of that channel the custom name "a-b" for the input "A b" (and "c" for
\* "c") and changes nothing else: the record keeps its id, owner and type
\* and gets no other field, the other records, last_id, the config and the
\* blacklist stay as they were; in an untracked channel the handler answers
\* NotATicket and changes no document and no dirty flag.
C20_RenameFrame ==
    [][
       \A t \in Running :
          (Resumed(t) /\ t.kind = "rename" /\ t.pc = "defer") =>
          LET c == t.chan IN
          IF c \in DOMAIN tickets.tickets
          THEN /\ DOMAIN tickets'.tickets = DOMAIN tickets.tickets
               /\ tickets'.last_id = tickets.last_id
               /\ \A d \in DOMAIN tickets.tickets \ {c} :
                     tickets'.tickets[d] = tickets.tickets[d]
               /\ DOMAIN tickets'.tickets[c] =
                     DOMAIN tickets.tickets[c] \cup {"custom_name"}
               /\ \A f \in DOMAIN tickets.tickets[c] \ {"custom_name"} :
                     tickets'.tickets[c][f] = tickets.tickets[c][f]
               /\ tickets'.tickets[c].custom_name =
                     IF t.ttype = "A b" THEN <<"a", "-", "b">> ELSE <<"c">>
               /\ config' = config /\ blacklist' = blacklist
          ELSE /\ mem' = mem /\ dirty' = dirty
               /\ last'.kind = "rename" /\ last'.result = "NotATicket"
    ]_vars

\* ticket 1 was renamed with "A b"; ticket 2 and the counter are as before
C20_Witness ==
    /\ Tracked(1) /\ Has(tickets.tickets[1], "custom_name")
    /\ tickets.tickets[1].custom_name = <<"a", "-", "b">>
    /\ tickets.tickets[1].id = 1 /\ tickets.tickets[1].user = 42
    /\ Tracked(2) /\ ~Has(tickets.tickets[2], "custom_name")
    /\ tickets.last_id = 2

\* a /rename in a channel whose ticket was closed was answered NotATicket
C20_UntrackedReached ==
    last.kind = "rename" /\ last.result = "NotATicket"

\* ---------------------------------------------------------------- C18
\* the ids of the records of the tickets document d are pairwise distinct
\* and lie between 1 and its last_id
RegistryIdsOk(d) ==
    /\ \A c1, c2 \in DOMAIN d.tickets :
          d.tickets[c1].id = d.tickets[c2].id => c1 = c2
    /\ \A c \in DOMAIN d.tickets : d.tickets[c].id \in 1..d.last_id

\* C18: in every state the ids of the records in memory are pairwise
\* distinct and between 1 and last_id, and so are those of tickets.json
\* whenever the file holds a document, whatever the creations in flight.
C18_RegistryIdsDistinctInRange ==
    /\ RegistryIdsOk(tickets)
    /\ disk["tickets"].st = "full" => RegistryIdsOk(disk["tickets"].doc)

\* tickets.json was written while a creation was suspended between the
\* increment and the insertion: the file holds an earlier record and a
\* last_id that no record has yet
C18_Witness ==
    /\ disk["tickets"].st = "full"
    /\ DOMAIN disk["tickets"].doc.tickets # {}
    /\ \E t \in Running :
          /\ t.kind = "create" /\ t.pc = "create_channel"
          /\ disk["tickets"].doc.last_id = t.tid
          /\ \A c \in DOMAIN disk["tickets"].doc.tickets :
                disk["tickets"].doc.tickets[c].id < t.tid

\* ---------------------------------------------------------------- C19
\* the steps that run ensure_guild_config or assign the guild's config:
\* the bodies of ticket creation, /button and /setup_ticket, and the
\* creation of the log channel
Ensures(t) ==
    \/ t.kind \in {"create", "button", "setup"} /\ t.pc = "defer"
    \/ t.pc = "log_create"

C19_NoConfigAfterClose ==
    /\ last.kind = "close" /\ last.result = "NotATicket"
    /\ \E g \in Guilds : last.chan = LobbyOf(g) /\ ~Has(config, g)

\* ---------------------------------------------------------------- C21
\* C21: whenever a store is dirty, a flush of it eventually completes, with
\* the memory document on disk and the dirty flag cleared, without another
\* mark_dirty being needed.
C21_DirtyEventuallyFlushed ==
    \A s \in Stores :
       dirty[s] ~> (~dirty[s] /\ disk[s] = Dump(Data(s)))

\* the form the claim calls equivalent: a dirty store has a save task
\* pending
C21_DirtyHasPendingSave ==
    \A s \in Stores : dirty[s] => save_task[s] = "pending"

\* a flush of the tickets store raised: the store is dirty, its save task
\* is done and nothing is scheduled
C21_DirtyNothingPending ==
    /\ dirty["tickets"] /\ save_task["tickets"] = "done"
    /\ save_count["tickets"] = 0 /\ writer = NoWriter

\* ---------------------------------------------------------------- C22
\* the document a start on the present files would load for store s
OnDisk(s) == Load(disk[s], DefaultDoc(s))

\* C22: a store whose dirty flag is false and which has no save pending
\* holds in memory the document that is on disk.
C22_DirtyFlagSound ==
    \A s \in Stores :
       (~dirty[s] /\ save_task[s] # "pending") => OnDisk(s) = Data(s)

\* create_text_channel raised after the counter was incremented: no
\* coroutine is left, the tickets store is clean with no save pending, and
\* the counter in memory is ahead of the one on disk
C22_IncrementNeverMarked ==
    /\ last.kind = "create" /\ last.result = "PlatformCallFailed"
    /\ Running = {}
    /\ ~dirty["tickets"] /\ save_task["tickets"] # "pending"
    /\ tickets.last_id > OnDisk("tickets").last_id

\* ---------------------------------------------------------------- C23
\* C23: no /rename or /add handler ends with the KeyError of the lookup of
\* its channel's record, whatever closes run meanwhile.
C23_LookupNeverFails ==
    last.kind \in {"rename", "add"} => last.result # "KeyError"

\* /rename stored a name for ticket 1, a /close removed the record while
\* the rename was suspended, and the rename ended with KeyError
C23_RenameLostRecord ==
    /\ last.kind = "rename" /\ last.result = "KeyError" /\ last.chan = 1
    /\ ~Tracked(1) /\ 1 \in closedChans

\* the same for /add
C23_AddLostRecord ==
    /\ last.kind = "add" /\ last.result = "KeyError"
    /\ ~Tracked(last.chan)

\* ---------------------------------------------------------------- C24
\* C24: the step of a /setup_ticket handler stores the category, the staff
\* role and the log channel of the command in the config of its guild and
\* keeps that guild's custom button labels, in their order, and its panel
\* reference (none when the guild had no config); the configs of the other
\* guilds, the ticket records, last_id and the blacklist are unchanged.
C24_SetupFrame ==
    [][
       \A t \in Running :
          (Resumed(t) /\ t.kind = "setup" /\ t.pc = "defer") =>
          LET g == t.gid IN
          /\ DOMAIN config' = DOMAIN config \cup {g}
          /\ config'[g].ticket_category = CatOf(g)
          /\ config'[g].staff_role = StaffRoleOf(g)
          /\ config'[g].log_channel = LogChanOf(g)
          /\ config'[g].custom_buttons =
                IF Has(config, g) THEN config[g].custom_buttons ELSE <<>>
          /\ config'[g].panel_message =
                IF Has(config, g) THEN config[g].panel_message ELSE <<>>
          /\ \A h \in DOMAIN config \ {g} : config'[h] = config[h]
          /\ tickets' = tickets
          /\ blacklist' = blacklist
    ]_vars

\* /setup_ticket ran in guild 1 over the earlier config: the category is the
\* new one, the buttons "a", "b" and the panel are kept
C24_Witness ==
    /\ Has(config, 1)
    /\ config[1].ticket_category = CatOf(1)
    /\ config[1].log_channel = LogChanOf(1)
    /\ config[1].custom_buttons = <<"a", "b">>
    /\ config[1].panel_message = <<31, 7>>
    /\ \E t \in Running : t.kind = "setup" /\ t.gid = 1 /\ t.pc = "followup"
====
